---- MODULE Spec2Model ----
(***************************************************************************)
(* Session lifecycle controller of the SD Studio dashboard                 *)
(* (dashboard/sd_dashboard.py) together with the parts of the VM gateway   *)
(* (dashboard/sd_vm_control.py) and of the analytics recorder              *)
(* (dashboard/sd_analytics.py) that it drives.                             *)
(*                                                                         *)
(* Threads: the daemon thread running inactivity_monitor() and the request *)
(* handler threads of the Flask server. Every thread is a program counter  *)
(* plus its locals; an action is one stretch of code between two accesses  *)
(* of the shared module globals that another thread can separate (a        *)
(* network round trip, a database call, a sleep).                          *)
(***************************************************************************)
EXTENDS Integers, Sequences, FiniteSets, TLC

\* ---------------------------------------------------------------- constants
MAX_SESSION_SECONDS == 7200
INACTIVITY_TIMEOUT_SECONDS == 900
POLL_SECONDS == 30
SESSION_WARNING_SECONDS == 300
INACTIVITY_WARNING_SECONDS == 120
HTTP_UNAUTHORIZED == 401
HTTP_NOT_FOUND == 404
HTTP_SERVER_ERROR == 500
\* wait_for_operation: the default bound (start_vm) and stop_vm's bound
WAIT_START_SECONDS == 180
WAIT_STOP_SECONDS == 120
\* wait_for_operation: time.sleep(3) between two polls of the operation
OP_POLL_SECONDS == 3
\* api_request: httpx.Client(timeout=60)
CLIENT_TIMEOUT_SECONDS == 60
\* Python's None for the numeric globals (timestamps, session ids)
None == -1
\* Python's None for gcp_token
NoToken == "None"

\* ------------------------------------------------------------------- bounds
\* number of times the monitor's sleep returns
MaxTicks == 3
\* number of rows the sessions table can take
MaxSessions == 2
\* last instant of the fixed-cadence scenario
ScenarioEnd == 7320
\* rows of the sessions table a run of the scenario may start
ScenarioSessions == 9

Handlers == {"h1"}
Monitor == "mon"
Threads == {Monitor} \cup Handlers
Tokens == {"tok"}
Ops == {"token", "status", "start", "stop", "keepalive", "track"}
\* how long a time.sleep(30) of the monitor can take to return: 30 s, or longer
\* when the process is not scheduled (here: as long as a whole timeout)
SleepSteps == {POLL_SECONDS, INACTIVITY_TIMEOUT_SECONDS, MAX_SESSION_SECONDS}
\* the sleeps that end where a warning is due: 120 s before the inactivity
\* timeout, 300 s before the session limit
WarningSteps == {POLL_SECONDS,
                 INACTIVITY_TIMEOUT_SECONDS - INACTIVITY_WARNING_SECONDS,
                 MAX_SESSION_SECONDS - SESSION_WARNING_SECONDS}

VARIABLES
    now,                    \* time.time()
    ticks,                  \* how often the monitor's sleep has returned
    last_activity_time,
    vm_start_time,
    shutdown_warning_sent,
    session_warning_sent,
    current_session_id,
    gcp_token,
    sessions,               \* the sessions table of analytics.db
    th,                     \* per thread: program counter and locals
    iter,                   \* what the current monitor iteration has done
    fired,                  \* per reason: the calls of auto_shutdown_vm so far
    served,                 \* a request has been served
    obs,                    \* the status stream the polls observed, and the
                            \* transitions of vm_start_time, counted
    warnings                \* per reason: the warnings printed since its clock
                            \* last started (update_activity; session open, close)

vars == <<now, ticks, last_activity_time, vm_start_time, shutdown_warning_sent,
          session_warning_sent, current_session_id, gcp_token, sessions, th,
          iter, fired, served, obs, warnings>>

globals == <<last_activity_time, vm_start_time, shutdown_warning_sent,
             session_warning_sent, current_session_id, gcp_token>>

\* -------------------------------------------------------------- the gateway
\* what api_request returns: error = "" and code = 0 stand for an absent key
ApiOk(s) == [error |-> "", code |-> 0, status |-> s]
ApiError(e, c) == [error |-> e, code |-> c, status |-> ""]
VmStatuses == {"RUNNING", "TERMINATED", "STAGING"}
ApiResults ==
    {ApiOk(s) : s \in VmStatuses} \cup
    {ApiError("Token expired or invalid", HTTP_UNAUTHORIZED),
     ApiError("VM not found", HTTP_NOT_FOUND),
     ApiError("backend error", HTTP_SERVER_ERROR),
     ApiError("connect timeout", 0)}

\* the dict get_vm_status builds from api_request's result: the error branch
\* copies "error" and sets "status", and carries no "code" key
get_vm_status(result) ==
    IF result.error # ""
    THEN [status |-> IF result.code = HTTP_NOT_FOUND THEN "NOT_FOUND" ELSE "ERROR",
          error |-> result.error, code |-> 0]
    ELSE [status |-> result.status, error |-> "", code |-> 0]

get_full_status(result) == get_vm_status(result)

\* variant: api_set_token without its test of the error text
MentionsExpiredNever(e) == FALSE
\* "expired" in str(error).lower()
MentionsExpired(e) == e \in {"Token expired or invalid"}

\* what start_vm / stop_vm return
VmOpOutcomes == {"success", "error", "timeout"}

\* what the POST of start_vm / stop_vm returns: an error dict, an operation
\* with a "name", or a dict without one (an empty body gives {})
ApiOperations == {"error", "named", "unnamed"}
\* what the GET of an operation returns: the operation still running, DONE,
\* DONE with an "error" key, or an error dict of api_request
OpStatuses == {"RUNNING", "DONE", "DONE_ERROR", "FAILED"}
\* one round of wait_for_operation's loop: the sleep, after a reply that came
\* at once or only when the client timed out
OpRounds == {OP_POLL_SECONDS, OP_POLL_SECONDS + CLIENT_TIMEOUT_SECONDS}
\* the bound that start_vm / stop_vm pass to wait_for_operation
WaitBound(op) == IF op = "stop" THEN WAIT_STOP_SECONDS ELSE WAIT_START_SECONDS

\* ------------------------------------------------------------- the recorder
NewSession == [ended |-> FALSE, runtime |-> 0, ends |-> 0]
\* variant: a session that follows a closed one takes over its row
start_session_reuse(db) ==
    IF db # <<>> /\ db[Len(db)].ended
    THEN [db EXCEPT ![Len(db)] = NewSession]
    ELSE Append(db, NewSession)
start_session(db) == Append(db, NewSession)
lastrowid(db) == Len(db)
\* variant: the row is ended with the default runtime_seconds = 0
end_session_default(db, id, runtime) ==
    [db EXCEPT ![id] = [ended |-> TRUE, runtime |-> 0, ends |-> @.ends + 1]]
end_session(db, id, runtime) ==
    [db EXCEPT ![id] = [ended |-> TRUE, runtime |-> runtime, ends |-> @.ends + 1]]
OpenRows(db) == {i \in 1..Len(db) : ~db[i].ended}
Max(S) == CHOOSE x \in S : \A y \in S : y <= x
get_current_session(db) == IF OpenRows(db) = {} THEN None ELSE Max(OpenRows(db))

\* ---------------------------------------------------------- timer helpers
get_inactivity_seconds == now - last_activity_time
get_session_seconds == IF vm_start_time = None THEN 0 ELSE now - vm_start_time
Max0(x) == IF x > 0 THEN x ELSE 0
\* variant: the inactivity clock counts only while a session is open
get_time_until_inactivity_shutdown_if_open ==
    IF vm_start_time = None THEN INACTIVITY_TIMEOUT_SECONDS
    ELSE Max0(INACTIVITY_TIMEOUT_SECONDS - get_inactivity_seconds)
get_time_until_inactivity_shutdown ==
    Max0(INACTIVITY_TIMEOUT_SECONDS - get_inactivity_seconds)
\* variant: the session limit without max(0, ...)
get_time_until_session_end_unclamped ==
    IF vm_start_time = None THEN MAX_SESSION_SECONDS
    ELSE MAX_SESSION_SECONDS - get_session_seconds
\* variant: the session limit measured on the inactivity clock
get_time_until_session_end_idle ==
    IF vm_start_time = None THEN MAX_SESSION_SECONDS
    ELSE Max0(MAX_SESSION_SECONDS - get_inactivity_seconds)
get_time_until_session_end ==
    IF vm_start_time = None THEN MAX_SESSION_SECONDS
    ELSE Max0(MAX_SESSION_SECONDS - get_session_seconds)

\* the tests of set_vm_start_time and of the monitor's two policies
\* variant: set_vm_start_time tests the session id, not the start time
OpenNeededById == current_session_id = None
\* variant: set_vm_start_time without its test
OpenNeededAlways == TRUE
OpenNeeded == vm_start_time = None
SessionWarningDue(remaining) ==
    /\ remaining <= SESSION_WARNING_SECONDS
    /\ remaining > 0
    /\ ~session_warning_sent
\* variant: the limit test is strict
SessionLimitHitStrict(remaining) == remaining < 0
SessionLimitHit(remaining) == remaining <= 0
\* variant: the inactivity warning does not look at its flag
InactivityWarningDueUnflagged(remaining) ==
    /\ remaining <= INACTIVITY_WARNING_SECONDS
    /\ remaining > 0
InactivityWarningDue(remaining) ==
    /\ remaining <= INACTIVITY_WARNING_SECONDS
    /\ remaining > 0
    /\ ~shutdown_warning_sent
InactivityHit(remaining) == remaining <= 0

\* ------------------------------------------------------------------ threads
\* no dict returned yet
NoReply == [status |-> "", error |-> "", code |-> 0]
\* reply: the dict a status call returned; http: the HTTP status code that
\* api_request saw when it made the call (0: none); foundId, foundStart:
\* current_session_id and vm_start_time as api_stop found them; began: the
\* time at which the request arrived; operation: what the POST of start_vm /
\* stop_vm returned; start: wait_for_operation's start; resolved: a poll of
\* the operation answered DONE without error
Locals == [pc |-> "idle", op |-> "none", status |-> "none", reason |-> "none",
           t |-> None, sess |-> None, tok |-> NoToken, result |-> "none",
           reply |-> NoReply, http |-> 0, foundId |-> None, foundStart |-> None,
           began |-> None, operation |-> "none", start |-> None,
           resolved |-> FALSE]
MonitorLocals == [Locals EXCEPT !.pc = "sleep"]
\* bookkeeping of the monitor's current iteration, for the properties
IterInit == [sid |-> None,       \* current_session_id when the poll answered
             start |-> None,     \* vm_start_time at that moment
             act |-> None,       \* last_activity_time at that moment
             midStop |-> FALSE,  \* an api_stop that had closed a session was
                                 \* inside stop_vm at that moment
             wasOpen |-> FALSE,  \* a session was open when set_vm_start_time ran
             opened |-> FALSE,   \* set_vm_start_time took its branch
             begins |-> 0,       \* calls of start_session
             elapsed |-> None,   \* session seconds when the session limit was tested
             idle |-> None,      \* inactivity seconds at that moment
             irem |-> None,      \* inactivity_remaining, once computed
             shuts |-> <<>>,     \* reasons of the auto_shutdown_vm calls
             stops |-> <<>>,     \* reasons of the stop_vm calls
             atShut |-> None,    \* current_session_id when auto_shutdown_vm began
             warned |-> {}]      \* warnings printed
Reasons == {"session_limit", "inactivity"}
NeverFired == [r \in Reasons |-> [n |-> 0, at |-> None]]
NoWarnings == [r \in Reasons |-> 0]

\* on: the stream, and what polls and api_stop found, is being recorded;
\* running: the last poll answered RUNNING;
\* changes: how often that flipped; opens, closes: the sessions the polls'
\* observations opened and closed; stops: the sessions a policy shutdown or
\* api_stop closed; shut: the last policy shutdown that closed a session (the
\* id and the row it closed, whether its stop call succeeded, the iteration)
NoShutdown == [id |-> None, row |-> NewSession, ok |-> FALSE, tick |-> 0]
NothingObserved ==
    [on |-> TRUE, running |-> FALSE, changes |-> 0, opens |-> 0, closes |-> 0,
     stops |-> 0, shut |-> NoShutdown]
\* the stream is not recorded
NotObserving == [NothingObserved EXCEPT !.on = FALSE]
\* the record after an observation, where the stream is recorded
Observed(o) == IF obs.on THEN o ELSE obs
\* a value a thread found, kept where the history is recorded
Recorded(v) == IF obs.on THEN v ELSE None

Boot ==
    /\ now = 0
    /\ ticks = 0
    /\ last_activity_time = 0
    /\ vm_start_time = None
    /\ shutdown_warning_sent = FALSE
    /\ session_warning_sent = FALSE
    /\ current_session_id = None
    /\ sessions = <<>>
    /\ th = [t \in Threads |-> IF t = Monitor THEN MonitorLocals ELSE Locals]
    /\ iter = IterInit
    /\ fired = NeverFired
    /\ warnings = NoWarnings

\* the process has started
Init ==
    /\ Boot
    /\ gcp_token = NoToken
    /\ served = FALSE
    /\ obs = NotObserving

\* the process has started, and the status stream is recorded
InitObserving ==
    /\ Boot
    /\ gcp_token = NoToken
    /\ served = FALSE
    /\ obs = NothingObserved

\* the state Init reaches when a token is accepted before the clock moves
InitWithToken ==
    /\ Boot
    /\ gcp_token \in Tokens
    /\ served = FALSE
    /\ obs = NotObserving

Goto(t, pc) == th' = [th EXCEPT ![t].pc = pc]
\* a handler returns: its locals are gone
Return(h) == th' = [th EXCEPT ![h] = Locals]

\* ---- update_activity()
\* variant: no `continue` after the session-limit shutdown
AfterUpdateFallThrough(t) ==
    IF t = Monitor
    THEN IF th[t].reason = "session_limit" THEN "inact" ELSE "done"
    ELSE CASE th[t].op = "status" -> "fullstatus"
           [] th[t].op = "start" -> "startcall"
           [] th[t].op = "track" -> "trk1"
           [] OTHER -> "idle"
\* where the caller of update_activity() goes on
AfterUpdate(t) ==
    IF t = Monitor THEN "done"
    ELSE CASE th[t].op = "status" -> "fullstatus"
           [] th[t].op = "start" -> "startcall"
           [] th[t].op = "track" -> "trk1"
           [] OTHER -> "idle"

\* time.time() is evaluated ...
UpdRead(t) ==
    /\ th[t].pc = "upd1"
    /\ th' = [th EXCEPT ![t] = [@ EXCEPT !.pc = "upd2", !.t = now]]
    /\ UNCHANGED <<now, ticks, globals, sessions, iter, fired, served, obs, warnings>>

\* variant: update_activity() restarts the session clock of an open session
UpdWriteRestartsSession(t) ==
    /\ th[t].pc = "upd2"
    /\ last_activity_time' = th[t].t
    /\ shutdown_warning_sent' = FALSE
    /\ vm_start_time' = IF vm_start_time = None THEN None ELSE th[t].t
    /\ IF AfterUpdate(t) = "idle" THEN Return(t)
       ELSE th' = [th EXCEPT ![t] = [@ EXCEPT !.pc = AfterUpdate(t), !.t = None]]
    /\ warnings' = [warnings EXCEPT !["inactivity"] = 0]
    /\ UNCHANGED <<now, ticks, session_warning_sent, current_session_id,
                   gcp_token, sessions, iter, fired, served, obs>>

\* variant: update_activity() leaves shutdown_warning_sent alone
UpdWriteKeepsWarning(t) ==
    /\ th[t].pc = "upd2"
    /\ last_activity_time' = th[t].t
    /\ IF AfterUpdate(t) = "idle" THEN Return(t)
       ELSE th' = [th EXCEPT ![t] = [@ EXCEPT !.pc = AfterUpdate(t), !.t = None]]
    /\ UNCHANGED <<now, ticks, vm_start_time, shutdown_warning_sent,
                   session_warning_sent, current_session_id, gcp_token, sessions,
                   iter, fired, served, obs, warnings>>

\* ... and stored
UpdWrite(t) ==
    /\ th[t].pc = "upd2"
    /\ last_activity_time' = th[t].t
    /\ shutdown_warning_sent' = FALSE
    /\ IF AfterUpdate(t) = "idle" THEN Return(t)
       ELSE th' = [th EXCEPT ![t] = [@ EXCEPT !.pc = AfterUpdate(t), !.t = None]]
    /\ warnings' = [warnings EXCEPT !["inactivity"] = 0]
    /\ UNCHANGED <<now, ticks, vm_start_time, session_warning_sent,
                   current_session_id, gcp_token, sessions, iter, fired, served,
                   obs>>

\* ---- clear_vm_start_time()
\* variant: auto_shutdown_vm is not followed by update_activity()
AfterClearNoUpdate(t) == IF t = Monitor THEN "done" ELSE "stopcall"
\* variant: api_stop returns without a stop call when no session was open
AfterClearSkipStop(t) ==
    IF t = Monitor
    THEN IF th[t].reason = "none" THEN "done" ELSE "upd1"
    ELSE IF th[t].foundStart = None THEN "respond" ELSE "stopcall"
\* where the caller of clear_vm_start_time() goes on
AfterClear(t) ==
    IF t = Monitor
    THEN IF th[t].reason = "none" THEN "done" ELSE "upd1"
    ELSE "stopcall"

\* the test and the end_session call; a handler keeps in sess the id of the
\* row it ended
ClearCheck(t) ==
    /\ th[t].pc = "clr1"
    /\ sessions' = IF current_session_id # None /\ vm_start_time # None
                   THEN end_session(sessions, current_session_id, now - vm_start_time)
                   ELSE sessions
    /\ th' = [th EXCEPT ![t] =
                 [@ EXCEPT !.pc = "clr2",
                           !.sess = IF /\ t # Monitor
                                       /\ current_session_id # None
                                       /\ vm_start_time # None
                                    THEN current_session_id ELSE @]]
    /\ UNCHANGED <<now, ticks, globals, iter, fired, served, obs, warnings>>

\* the three assignments
ClearReset(t) ==
    /\ th[t].pc = "clr2"
    /\ vm_start_time' = None
    /\ session_warning_sent' = FALSE
    /\ current_session_id' = None
    /\ Goto(t, AfterClear(t))
    /\ obs' = IF vm_start_time = None THEN obs
              ELSE IF t = Monitor /\ th[t].reason = "none"
                   THEN Observed([obs EXCEPT !.closes = @ + 1])
                   ELSE IF t = Monitor /\ current_session_id # None
                   THEN Observed([obs EXCEPT
                           !.stops = @ + 1,
                           !.shut = [id |-> current_session_id,
                                     row |-> sessions[current_session_id],
                                     ok |-> th[t].result = "success",
                                     tick |-> ticks]])
                   ELSE Observed([obs EXCEPT !.stops = @ + 1])
    /\ warnings' = [warnings EXCEPT !["session_limit"] = 0]
    /\ UNCHANGED <<now, ticks, last_activity_time, shutdown_warning_sent,
                   gcp_token, sessions, iter, fired, served>>

\* ---- stop_vm(gcp_token) returns
\* variant: auto_shutdown_vm leaves the state alone when the stop failed
AfterStopIfOk(res) == IF res = "success" THEN "clr1" ELSE "upd1"
\* auto_shutdown_vm clears the state whatever stop_vm returned
AfterStop(res) == "clr1"
StopCall(t) ==
    /\ th[t].pc = "stopcall"
    /\ \E res \in VmOpOutcomes :
         IF t = Monitor
         THEN th' = [th EXCEPT ![t] = [@ EXCEPT !.pc = AfterStop(res),
                                                 !.result = res]]
         ELSE th' = [th EXCEPT ![t] = [@ EXCEPT !.pc = "respond", !.result = res]]
    /\ UNCHANGED <<now, ticks, globals, sessions, iter, fired, served, obs, warnings>>

\* ---- inactivity_monitor()
\* time.sleep(30) returns, d seconds after it was called
SleepFor(d) ==
    /\ th[Monitor].pc = "sleep"
    /\ now' = now + d
    /\ Goto(Monitor, "due")
    /\ UNCHANGED <<globals, sessions, iter, fired, served, obs, warnings>>

MonSleep ==
    /\ ticks < MaxTicks
    /\ ticks' = ticks + 1
    /\ \E d \in SleepSteps : SleepFor(d)

\* the sleeps that do not outlast the session limit
MonNap ==
    /\ ticks < MaxTicks
    /\ ticks' = ticks + 1
    /\ \E d \in SleepSteps \ {MAX_SESSION_SECONDS} : SleepFor(d)

\* the sleeps that end in a warning zone
MonDoze ==
    /\ ticks < MaxTicks
    /\ ticks' = ticks + 1
    /\ \E d \in WarningSteps : SleepFor(d)

\* the sleep that takes exactly its 30 s
Cadence ==
    /\ now + POLL_SECONDS <= ScenarioEnd
    /\ SleepFor(POLL_SECONDS)
    /\ UNCHANGED ticks

\* variant: the loop has no credentials guard
MonWakeUnguarded ==
    /\ th[Monitor].pc = "due"
    /\ Goto(Monitor, "poll")
    /\ UNCHANGED <<now, ticks, globals, sessions, iter, fired, served, obs, warnings>>

\* the guard of the loop
MonWake ==
    /\ th[Monitor].pc = "due"
    /\ Goto(Monitor, IF gcp_token = NoToken THEN "sleep" ELSE "poll")
    /\ UNCHANGED <<now, ticks, globals, sessions, iter, fired, served, obs, warnings>>

\* continue: the bottom of the loop, back to time.sleep(30)
MonLoop ==
    /\ th[Monitor].pc = "done"
    /\ th' = [th EXCEPT ![Monitor] = MonitorLocals]
    /\ iter' = IterInit
    /\ UNCHANGED <<now, ticks, globals, sessions, fired, served, obs, warnings>>

\* variant: a VM that is being staged counts as running
IsRunningOrStaging(st) == st \in {"RUNNING", "STAGING"}
\* the monitor's test of the status
IsRunning(st) == st = "RUNNING"

\* api_stop has closed a session and its stop call has not returned
StopInFlight(h) ==
    /\ th[h].pc = "stopcall"
    /\ th[h].op = "stop"
    /\ th[h].sess # None

\* get_vm_status(gcp_token) answers r; the test of its status
Poll(r) ==
    /\ th[Monitor].pc = "poll"
    /\ LET st == get_vm_status(r).status IN
       th' = [th EXCEPT ![Monitor] =
                 [@ EXCEPT !.status = st,
                           !.pc = IF ~IsRunning(st) THEN "clr1" ELSE "set"]]
    /\ iter' = [iter EXCEPT !.sid = Recorded(current_session_id),
                            !.start = Recorded(vm_start_time),
                            !.act = Recorded(last_activity_time),
                            !.midStop = \E h \in Handlers : StopInFlight(h)]
    /\ LET st == get_vm_status(r).status IN
       obs' = Observed([obs EXCEPT !.running = (st = "RUNNING"),
                                   !.changes = IF (st = "RUNNING") # obs.running
                                               THEN @ + 1 ELSE @])
    /\ UNCHANGED <<now, ticks, globals, sessions, fired, served, warnings>>

MonPoll == \E r \in ApiResults : Poll(r)

\* variant: opening a session counts as activity
MonSetRecordsActivity ==
    /\ th[Monitor].pc = "set"
    /\ IF OpenNeeded
       THEN /\ vm_start_time' = now
            /\ session_warning_sent' = FALSE
            /\ last_activity_time' = now
            /\ Goto(Monitor, "begin")
       ELSE /\ Goto(Monitor, "policy")
            /\ UNCHANGED <<vm_start_time, session_warning_sent, last_activity_time>>
    /\ iter' = [iter EXCEPT
                  !.wasOpen = (vm_start_time # None /\ current_session_id # None),
                  !.opened = OpenNeeded]
    /\ obs' = Observed([obs EXCEPT !.opens = IF OpenNeeded THEN @ + 1 ELSE @])
    /\ warnings' = IF OpenNeeded THEN [warnings EXCEPT !["session_limit"] = 0]
                   ELSE warnings
    /\ UNCHANGED <<now, ticks, shutdown_warning_sent, current_session_id,
                   gcp_token, sessions, fired, served>>

\* set_vm_start_time(): the test and the first two assignments
MonSet ==
    /\ th[Monitor].pc = "set"
    /\ IF OpenNeeded
       THEN /\ vm_start_time' = now
            /\ session_warning_sent' = FALSE
            /\ Goto(Monitor, "begin")
       ELSE /\ Goto(Monitor, "policy")
            /\ UNCHANGED <<vm_start_time, session_warning_sent>>
    /\ iter' = [iter EXCEPT
                  !.wasOpen = (vm_start_time # None /\ current_session_id # None),
                  !.opened = OpenNeeded]
    /\ obs' = Observed([obs EXCEPT !.opens = IF OpenNeeded THEN @ + 1 ELSE @])
    /\ warnings' = IF OpenNeeded THEN [warnings EXCEPT !["session_limit"] = 0]
                   ELSE warnings
    /\ UNCHANGED <<now, ticks, last_activity_time, shutdown_warning_sent,
                   current_session_id, gcp_token, sessions, fired, served>>

\* set_vm_start_time(): current_session_id = analytics.start_session()
MonBegin(cap) ==
    /\ th[Monitor].pc = "begin"
    /\ Len(sessions) < cap
    /\ sessions' = start_session(sessions)
    /\ current_session_id' = lastrowid(sessions')
    /\ Goto(Monitor, "policy")
    /\ iter' = [iter EXCEPT !.begins = @ + 1]
    /\ UNCHANGED <<now, ticks, last_activity_time, vm_start_time,
                   shutdown_warning_sent, session_warning_sent, gcp_token,
                   fired, served, obs, warnings>>

\* the 2-hour session limit
MonSession ==
    /\ th[Monitor].pc = "policy"
    /\ LET session_remaining == get_time_until_session_end
           warn == SessionWarningDue(session_remaining)
       IN /\ session_warning_sent' = (session_warning_sent \/ warn)
          /\ th' = [th EXCEPT ![Monitor] =
                       IF SessionLimitHit(session_remaining)
                       THEN [@ EXCEPT !.pc = "shut", !.reason = "session_limit"]
                       ELSE [@ EXCEPT !.pc = "inact"]]
          /\ iter' = [iter EXCEPT
                        !.elapsed = IF vm_start_time = None THEN None
                                    ELSE now - vm_start_time,
                        !.idle = now - last_activity_time,
                        !.warned = IF warn THEN @ \cup {"session_limit"} ELSE @]
          /\ warnings' = [warnings EXCEPT
                            !["session_limit"] = IF warn THEN @ + 1 ELSE @]
    /\ UNCHANGED <<now, ticks, last_activity_time, vm_start_time,
                   shutdown_warning_sent, current_session_id, gcp_token,
                   sessions, fired, served, obs>>

\* the 15-minute inactivity timeout
MonInactivity ==
    /\ th[Monitor].pc = "inact"
    /\ LET inactivity_remaining == get_time_until_inactivity_shutdown
           warn == InactivityWarningDue(inactivity_remaining)
       IN /\ shutdown_warning_sent' = (shutdown_warning_sent \/ warn)
          /\ th' = [th EXCEPT ![Monitor] =
                       IF InactivityHit(inactivity_remaining)
                       THEN [@ EXCEPT !.pc = "shut", !.reason = "inactivity"]
                       ELSE [@ EXCEPT !.pc = "done"]]
          /\ iter' = [iter EXCEPT
                        !.irem = inactivity_remaining,
                        !.warned = IF warn THEN @ \cup {"inactivity"} ELSE @]
          /\ warnings' = [warnings EXCEPT
                            !["inactivity"] = IF warn THEN @ + 1 ELSE @]
    /\ UNCHANGED <<now, ticks, last_activity_time, vm_start_time,
                   session_warning_sent, current_session_id, gcp_token,
                   sessions, fired, served, obs>>

\* auto_shutdown_vm(reason) up to the stop call
AutoShutdown ==
    /\ th[Monitor].pc = "shut"
    /\ fired' = [fired EXCEPT ![th[Monitor].reason] = [n |-> @.n + 1, at |-> now]]
    /\ Goto(Monitor, IF gcp_token # NoToken THEN "stopcall" ELSE "clr1")
    /\ iter' = [iter EXCEPT
                  !.shuts = Append(@, th[Monitor].reason),
                  !.stops = IF gcp_token # NoToken
                            THEN Append(@, th[Monitor].reason) ELSE @,
                  !.atShut = current_session_id]
    /\ UNCHANGED <<now, ticks, globals, sessions, served, obs, warnings>>

\* ---- request handlers
\* variant: api_stop forwards the stop call and does no bookkeeping
FirstStepStopOnly(op, tok) ==
    CASE op = "token" -> IF tok = "" THEN "idle" ELSE "validate"
      [] op \in {"status", "start"} -> IF gcp_token = NoToken THEN "idle" ELSE "upd1"
      [] op = "stop" -> IF gcp_token = NoToken THEN "idle" ELSE "stopcall"
      [] OTHER -> "upd1"
\* a request arrives: the handler up to its first call
FirstStep(op, tok) ==
    CASE op = "token" -> IF tok = "" THEN "idle" ELSE "validate"
      [] op \in {"status", "start"} -> IF gcp_token = NoToken THEN "idle" ELSE "upd1"
      [] op = "stop" -> IF gcp_token = NoToken THEN "idle" ELSE "clr1"
      [] OTHER -> "upd1"

Serve(h, op, tok) ==
    /\ th[h].pc = "idle"
    /\ IF FirstStep(op, tok) = "idle" THEN Return(h)
       ELSE th' = [th EXCEPT ![h] =
                     [Locals EXCEPT
                        !.pc = FirstStep(op, tok), !.op = op, !.tok = tok,
                        !.began = Recorded(now),
                        !.foundId = IF op = "stop" THEN Recorded(current_session_id)
                                                   ELSE None,
                        !.foundStart = IF op = "stop" THEN Recorded(vm_start_time)
                                                      ELSE None]]
    /\ served' = TRUE
    /\ UNCHANGED <<now, ticks, globals, sessions, iter, fired, obs, warnings>>

Request(h) ==
    \E op \in Ops :
       \E tok \in (IF op = "token" THEN Tokens \cup {""} ELSE {NoToken}) :
          Serve(h, op, tok)

\* api_set_token: the validating status call and what follows it
Validate(h) ==
    /\ th[h].pc = "validate"
    /\ \E r \in ApiResults :
         LET status == get_vm_status(r)
             rejected == \/ status.error # "" /\ MentionsExpired(status.error)
                         \/ status.error # "" /\ status.code = HTTP_UNAUTHORIZED
         IN IF rejected
            THEN /\ Return(h)
                 /\ UNCHANGED gcp_token
            ELSE /\ gcp_token' = th[h].tok
                 /\ th' = [th EXCEPT ![h] = [@ EXCEPT !.pc = "upd1",
                                                      !.http = Recorded(r.code)]]
    /\ UNCHANGED <<now, ticks, last_activity_time, vm_start_time,
                   shutdown_warning_sent, session_warning_sent,
                   current_session_id, sessions, iter, fired, served, obs, warnings>>

\* api_status: status = vm_control.get_full_status(gcp_token)
FullStatus(h) ==
    /\ th[h].pc = "fullstatus"
    /\ \E r \in ApiResults :
         th' = [th EXCEPT ![h] = [@ EXCEPT !.pc = "authtest",
                                           !.reply = get_full_status(r),
                                           !.http = r.code]]
    /\ UNCHANGED <<now, ticks, globals, sessions, iter, fired, served, obs, warnings>>

\* api_status: the 401 test on the dict, and the response
AuthTest(h) ==
    /\ th[h].pc = "authtest"
    /\ LET status == th[h].reply IN
       gcp_token' = IF status.error # "" /\ status.code = HTTP_UNAUTHORIZED
                    THEN NoToken ELSE gcp_token
    /\ Return(h)
    /\ UNCHANGED <<now, ticks, last_activity_time, vm_start_time,
                   shutdown_warning_sent, session_warning_sent,
                   current_session_id, sessions, iter, fired, served, obs, warnings>>

\* api_stop: return jsonify(result)
Respond(h) ==
    /\ th[h].pc = "respond"
    /\ Return(h)
    /\ UNCHANGED <<now, ticks, globals, sessions, iter, fired, served, obs, warnings>>

\* variant: api_start opens the session when start_vm succeeded
StartCallOpens(h) ==
    /\ th[h].pc = "startcall"
    /\ \E res \in VmOpOutcomes :
         /\ Return(h)
         /\ vm_start_time' = IF res = "success" /\ vm_start_time = None
                             THEN now ELSE vm_start_time
    /\ UNCHANGED <<now, ticks, last_activity_time, shutdown_warning_sent,
                   session_warning_sent, current_session_id, gcp_token, sessions,
                   iter, fired, served, obs, warnings>>

\* api_start: start_vm(gcp_token) returns
StartCall(h) ==
    /\ th[h].pc = "startcall"
    /\ \E res \in VmOpOutcomes : Return(h)
    /\ UNCHANGED <<now, ticks, globals, sessions, iter, fired, served, obs, warnings>>

\* api_track: the test of current_session_id and get_current_session()
TrackLookup(h) ==
    /\ th[h].pc = "trk1"
    /\ IF current_session_id = None
       THEN th' = [th EXCEPT ![h] = [@ EXCEPT !.pc = "trk2",
                                              !.sess = get_current_session(sessions)]]
       ELSE Return(h)
    /\ UNCHANGED <<now, ticks, globals, sessions, iter, fired, served, obs, warnings>>

\* api_track: adopt the open row or start a session
TrackAdopt(h) ==
    /\ th[h].pc = "trk2"
    /\ IF th[h].sess # None
       THEN /\ current_session_id' = th[h].sess
            /\ UNCHANGED sessions
       ELSE /\ Len(sessions) < MaxSessions
            /\ sessions' = start_session(sessions)
            /\ current_session_id' = lastrowid(sessions')
    /\ Return(h)
    /\ UNCHANGED <<now, ticks, last_activity_time, vm_start_time,
                   shutdown_warning_sent, session_warning_sent, gcp_token,
                   iter, fired, served, obs, warnings>>

\* ------------------------------------------------------------ specifications
MonitorStep ==
    \/ MonPoll
    \/ MonWake
    \/ MonSet
    \/ MonBegin(MaxSessions)
    \/ MonSession
    \/ MonInactivity
    \/ AutoShutdown
    \/ MonLoop

HandlerStep(h) ==
    \/ Request(h)
    \/ Validate(h)
    \/ FullStatus(h)
    \/ AuthTest(h)
    \/ Respond(h)
    \/ StartCall(h)
    \/ TrackLookup(h)
    \/ TrackAdopt(h)

SharedStep(t) ==
    \/ UpdRead(t)
    \/ UpdWrite(t)
    \/ ClearCheck(t)
    \/ ClearReset(t)
    \/ StopCall(t)

\* a thread is between two operations: the monitor asleep (or terminated), a
\* handler idle
AtRest(t) ==
    th[t].pc \in (IF t = Monitor THEN {"sleep", "due", "dead"} ELSE {"idle"})
OthersAtRest(t) == \A u \in Threads \ {t} : AtRest(u)

\* the program: the monitor thread and the handler threads interleave
Next ==
    \/ MonNap
    \/ MonitorStep
    \/ \E h \in Handlers : HandlerStep(h)
    \/ \E t \in Threads : SharedStep(t)

Spec == Init /\ [][Next]_vars

\* the same steps when every operation runs to completion before the next starts
NextSeq ==
    \/ MonSleep
    \/ OthersAtRest(Monitor) /\ MonitorStep
    \/ \E h \in Handlers : OthersAtRest(h) /\ HandlerStep(h)
    \/ \E t \in Threads : OthersAtRest(t) /\ SharedStep(t)

SpecSeq == Init /\ [][NextSeq]_vars

\* the same, with the history recorded: the observed status stream, and the
\* session that each poll and each api_stop found
SpecObserved == InitObserving /\ [][NextSeq]_vars

\* ---- start_vm / stop_vm in detail
\* the POST is answered
GwPost(h) ==
    /\ th[h].pc \in {"startcall", "stopcall"}
    /\ \E o \in ApiOperations :
         th' = [th EXCEPT ![h] =
                   IF o = "error"
                   THEN [@ EXCEPT !.pc = "respond", !.operation = o,
                                  !.result = "error"]
                   ELSE [@ EXCEPT !.pc = "wait", !.operation = o]]
    /\ UNCHANGED <<now, ticks, globals, sessions, iter, fired, served, obs, warnings>>

\* wait_for_operation up to its loop
GwWait(h) ==
    /\ th[h].pc = "wait"
    /\ th' = [th EXCEPT ![h] =
                 IF th[h].operation = "unnamed"
                 THEN [@ EXCEPT !.pc = "respond", !.result = "success"]
                 ELSE [@ EXCEPT !.pc = "opq", !.start = now]]
    /\ UNCHANGED <<now, ticks, globals, sessions, iter, fired, served, obs, warnings>>

\* one test of the loop condition and, inside the bound, one poll
GwPoll(h) ==
    /\ th[h].pc = "opq"
    /\ IF now - th[h].start < WaitBound(th[h].op)
       THEN \E st \in OpStatuses, d \in OpRounds :
               IF st \in {"DONE", "DONE_ERROR"}
               THEN /\ th' = [th EXCEPT ![h] =
                                [@ EXCEPT !.pc = "respond",
                                          !.resolved = (st = "DONE"),
                                          !.result = IF st = "DONE" THEN "success"
                                                     ELSE "timeout"]]
                    /\ UNCHANGED now
               ELSE /\ now' = now + d
                    /\ UNCHANGED th
       ELSE /\ th' = [th EXCEPT ![h] = [@ EXCEPT !.pc = "respond",
                                                 !.result = "timeout"]]
            /\ UNCHANGED now
    /\ UNCHANGED <<ticks, globals, sessions, iter, fired, served, obs, warnings>>

\* a token is stored and no request has come yet
InitGateway ==
    /\ Boot
    /\ gcp_token \in Tokens
    /\ served = FALSE
    /\ obs = NotObserving

NextGateway ==
    \E h \in Handlers :
       \/ ~served /\ \E op \in {"start", "stop"} : Serve(h, op, NoToken)
       \/ UpdRead(h)
       \/ UpdWrite(h)
       \/ ClearCheck(h)
       \/ ClearReset(h)
       \/ GwPost(h)
       \/ GwWait(h)
       \/ GwPoll(h)
       \/ Respond(h)

\* one start or stop request, with the gateway call in detail
SpecGateway == InitGateway /\ [][NextGateway]_vars

\* ---- calls that raise
\* where an exception raised in thread t ends up: the monitor's try block
\* (status, clear_vm_start_time, set_vm_start_time) catches it and continues;
\* raised in auto_shutdown_vm it leaves inactivity_monitor and the thread
\* ends; raised in a handler, Flask answers 500
Raised(t) ==
    IF t = Monitor
    THEN IF th[t].reason = "none" THEN Goto(t, "done") ELSE Goto(t, "dead")
    ELSE Return(t)

\* clear_vm_start_time(): analytics.end_session raises (sqlite3 error)
ClearRaise(t) ==
    /\ th[t].pc = "clr1"
    /\ current_session_id # None /\ vm_start_time # None
    /\ Raised(t)
    /\ UNCHANGED <<now, ticks, globals, sessions, iter, fired, served, obs, warnings>>

\* stop_vm: save_vm_state raises after the operation was confirmed (OSError)
StopRaise(t) ==
    /\ th[t].pc = "stopcall"
    /\ Raised(t)
    /\ UNCHANGED <<now, ticks, globals, sessions, iter, fired, served, obs, warnings>>

\* set_vm_start_time(): analytics.start_session raises
BeginRaise ==
    /\ th[Monitor].pc = "begin"
    /\ Raised(Monitor)
    /\ UNCHANGED <<now, ticks, globals, sessions, iter, fired, served, obs, warnings>>

\* operations run to completion, and the recorder and the state file can fail
NextFaulty ==
    \/ MonSleep
    \/ OthersAtRest(Monitor) /\ MonitorStep
    \/ \E h \in Handlers : OthersAtRest(h) /\ HandlerStep(h)
    \/ \E t \in Threads : OthersAtRest(t) /\ SharedStep(t)
    \/ \E t \in Threads : OthersAtRest(t) /\ ClearRaise(t)
    \/ \E t \in Threads : OthersAtRest(t) /\ StopRaise(t)
    \/ OthersAtRest(Monitor) /\ BeginRaise

SpecFaulty == Init /\ [][NextFaulty]_vars

\* operations run to completion, and the monitor wakes where warnings are due
NextWarn ==
    \/ MonDoze
    \/ OthersAtRest(Monitor) /\ MonitorStep
    \/ \E h \in Handlers : OthersAtRest(h) /\ HandlerStep(h)
    \/ \E t \in Threads : OthersAtRest(t) /\ SharedStep(t)

SpecWarn == Init /\ [][NextWarn]_vars

\* the scenario of a fixed polling cadence: credentials present, every poll
\* answers RUNNING, every sleep takes its 30 s, and the only requests are the
\* keep-alives of an operator who answers the inactivity warnings until they
\* walk away: nobody answers any more once the timeout has shut the VM down
KeepAlive(h) ==
    \/ /\ shutdown_warning_sent
       /\ fired["inactivity"].n = 0
       /\ Serve(h, "keepalive", NoToken)
    \/ UpdRead(h)
    \/ UpdWrite(h)

Running(t) ==
    \/ Poll(ApiOk("RUNNING"))
    \/ MonWake
    \/ MonSet
    \/ MonBegin(ScenarioSessions)
    \/ MonSession
    \/ MonInactivity
    \/ AutoShutdown
    \/ MonLoop
    \/ SharedStep(t)

NextScenario ==
    \/ (\A t \in Threads : th[t].pc \in {"sleep", "idle"}) /\ Cadence
    \/ OthersAtRest(Monitor) /\ Running(Monitor)
    \/ \E h \in Handlers : OthersAtRest(h) /\ KeepAlive(h)

SpecScenario == InitWithToken /\ [][NextScenario]_vars

\* ---------------------------------------------------------------- properties
mon == th[Monitor]
\* the bottom of the monitor's loop: the iteration is complete
IterationDone == mon.pc = "done"
SessionLimitReached == iter.elapsed # None /\ iter.elapsed >= MAX_SESSION_SECONDS
InactivityExpired == iter.irem # None /\ iter.irem <= 0
IsClosed == vm_start_time = None /\ current_session_id = None

\* C1: an iteration that observed RUNNING and found the open session's elapsed
\* time at or beyond the session limit has issued one stop call, with reason
\* session_limit, whatever the inactivity clock showed.
C1_SessionLimitAlwaysChecked ==
    (IterationDone /\ mon.status = "RUNNING" /\ SessionLimitReached)
        => iter.stops = <<"session_limit">>

\* the session limit fired while the inactivity clock had not expired
C1_Witness ==
    /\ IterationDone
    /\ SessionLimitReached
    /\ iter.idle < INACTIVITY_TIMEOUT_SECONDS
    /\ iter.stops = <<"session_limit">>

\* the first poll of the scenario opens the session; this is the first poll
\* at which it is MAX_SESSION_SECONDS old
FirstLimitPoll == POLL_SECONDS + MAX_SESSION_SECONDS
OneSessionLimitEvent ==
    /\ fired["session_limit"].n <= 1
    /\ fired["session_limit"].n = 1 => fired["session_limit"].at = FirstLimitPoll
    /\ (now > FirstLimitPoll \/ (now = FirstLimitPoll /\ IterationDone))
          => fired["session_limit"].n = 1
    /\ (now = FirstLimitPoll /\ IterationDone) => IsClosed

\* C2 as stated: in the scenario with no activity and no request at all, there
\* is exactly one session_limit shutdown, at the first poll where the session
\* is 7200 s old, and the session is closed right after it.
C2_Original == ~served => OneSessionLimitEvent

\* C2 amended: the same, for the runs of the scenario in which keep-alives have
\* kept the inactivity timeout from expiring.
C2_ScenarioSessionLimit == fired["inactivity"].n = 0 => OneSessionLimitEvent

C2_Witness ==
    /\ IterationDone
    /\ now = FirstLimitPoll
    /\ served
    /\ fired["inactivity"].n = 0
    /\ fired["session_limit"] = [n |-> 1, at |-> FirstLimitPoll]
    /\ IsClosed

\* C3: an iteration that found the inactivity clock expired (the session limit
\* not reached) has issued exactly one stop call, with reason inactivity, and
\* has then recorded activity, so that the inactivity clock is back at the full
\* timeout; and an inactivity shutdown never follows another one by less than
\* the inactivity timeout.
C3_InactivityFiresOnce ==
    /\ (IterationDone /\ InactivityExpired)
          => /\ iter.shuts = <<"inactivity">>
             /\ iter.stops = <<"inactivity">>
             /\ last_activity_time = now
             /\ get_time_until_inactivity_shutdown = INACTIVITY_TIMEOUT_SECONDS
    /\ (mon.pc = "shut" /\ mon.reason = "inactivity" /\ fired["inactivity"].n > 0)
          => now - fired["inactivity"].at >= INACTIVITY_TIMEOUT_SECONDS

\* the iteration after an inactivity shutdown evaluated the inactivity policy
\* 30 s later and did not fire
C3_Witness ==
    /\ IterationDone
    /\ fired["inactivity"].n = 1
    /\ now = fired["inactivity"].at + POLL_SECONDS
    /\ iter.irem # None /\ iter.irem > 0
    /\ iter.shuts = <<>>

\* C4: when the session limit and the inactivity timeout have both expired in
\* one iteration, that iteration triggers exactly one shutdown, its reason is
\* session_limit, activity is recorded, and the inactivity policy is not
\* evaluated.
C4_SessionLimitFirst ==
    (IterationDone /\ SessionLimitReached /\ iter.idle >= INACTIVITY_TIMEOUT_SECONDS)
        => /\ iter.shuts = <<"session_limit">>
           /\ iter.stops = <<"session_limit">>
           /\ iter.irem = None
           /\ last_activity_time = now

C4_Witness ==
    /\ IterationDone
    /\ SessionLimitReached
    /\ iter.idle >= INACTIVITY_TIMEOUT_SECONDS
    /\ iter.shuts = <<"session_limit">>

\* auto_shutdown_vm has returned
ShutdownReturned == mon.pc = "upd1" /\ mon.reason \in Reasons

\* C5: when auto_shutdown_vm returns, whatever stop_vm answered, the record
\* that was open when it began has been ended and vm_start_time and
\* current_session_id are both cleared.
C5_ShutdownClosesSession ==
    ShutdownReturned
        => /\ IsClosed
           /\ iter.atShut # None
           /\ sessions[iter.atShut].ended

\* the stop call failed and the session was closed all the same
C5_Witness ==
    /\ ShutdownReturned
    /\ mon.result = "timeout"
    /\ IsClosed
    /\ iter.atShut # None
    /\ sessions[iter.atShut].ended

AllAtRest == \A t \in Threads : AtRest(t)

\* C6: between operations, current_session_id is set if and only if
\* vm_start_time is set.
C6_RecordIffStartTime ==
    AllAtRest => ((current_session_id # None) <=> (vm_start_time # None))

\* C7: between operations, the controller holds a session id if and only if
\* the sessions table holds a row that has been started and not ended.
C7_OpenFlagAgreesWithRecorder ==
    AllAtRest => ((current_session_id # None) <=> (OpenRows(sessions) # {}))

\* C8: at most one row of the sessions table is started and not ended.
C8_AtMostOneOpenRecord == Cardinality(OpenRows(sessions)) <= 1

\* C9: end_session is called at most once for every session id.
C9_EndedAtMostOnce == \A i \in 1..Len(sessions) : sessions[i].ends <= 1

\* C10: a poll that observed RUNNING while no session was open has, when the
\* policy evaluation begins, set vm_start_time to the current time, called
\* start_session exactly once and stored the id of the row it inserted, which
\* is still open.
C10_OpenTransition ==
    (mon.pc = "policy" /\ ~iter.wasOpen)
        => /\ vm_start_time = now
           /\ iter.begins = 1
           /\ current_session_id = Len(sessions)
           /\ ~sessions[current_session_id].ended

C10_Witness ==
    /\ mon.pc = "policy"
    /\ ~iter.wasOpen
    /\ iter.begins = 1
    /\ vm_start_time = now
    /\ current_session_id = Len(sessions)

\* the monitor's poll found a session open: both globals set
PollFoundOpen == iter.sid # None /\ iter.start # None
NotRunning == {"TERMINATED", "NOT_FOUND"}

\* C11: an iteration whose poll observed the VM stopped or not found (404)
\* while a session was open has ended that session's row once, with
\* runtime = now - vm_start_time >= 0, has cleared vm_start_time and
\* current_session_id, and has evaluated no policy.
C11_CloseTransition ==
    (IterationDone /\ mon.status \in NotRunning /\ PollFoundOpen)
        => /\ sessions[iter.sid].ended
           /\ sessions[iter.sid].ends = 1
           /\ sessions[iter.sid].runtime = now - iter.start
           /\ sessions[iter.sid].runtime >= 0
           /\ IsClosed
           /\ iter.elapsed = None
           /\ iter.irem = None
           /\ iter.shuts = <<>>

\* a 404 closed a session that had been open for some time
C11_Witness ==
    /\ IterationDone
    /\ mon.status = "NOT_FOUND"
    /\ PollFoundOpen
    /\ now > iter.start
    /\ sessions[iter.sid].runtime = now - iter.start
    /\ IsClosed

\* set_vm_start_time has just opened a session
JustOpened == mon.pc = "policy" /\ iter.opened

\* C12: right after a poll has opened a session, session_warning_sent and
\* shutdown_warning_sent are both false.
C12_OpenClearsWarnings ==
    JustOpened => (~session_warning_sent /\ ~shutdown_warning_sent)

\* the iteration left the session state as its poll found it: same id, same
\* start time, no row started, the session's row not ended
SessionUntouched ==
    /\ current_session_id = iter.sid
    /\ vm_start_time = iter.start
    /\ iter.begins = 0
    /\ iter.sid # None => ~sessions[iter.sid].ended

\* C13: an iteration whose poll failed (network failure, HTTP 401, HTTP 5xx:
\* status ERROR) while a session was open leaves the session open, with the
\* same id and start time, and starts and ends no row.
C13_ErrorPollIsNoOp ==
    (IterationDone /\ mon.status = "ERROR" /\ PollFoundOpen) => SessionUntouched

\* C14: an iteration whose poll observed a transitioning status (STAGING)
\* while a session was open leaves the session open, with the same id and
\* start time, and starts and ends no row.
C14_TransitioningPollIsNoOp ==
    (IterationDone /\ mon.status = "STAGING" /\ PollFoundOpen) => SessionUntouched

\* api_status returns after a status call that the gateway answered with 401
StatusRejected(h) ==
    /\ th[h].pc = "authtest"
    /\ th[h].http = HTTP_UNAUTHORIZED
    /\ th'[h].pc = "idle"

\* C15: when the gateway answers api_status's status call with HTTP 401, the
\* handler clears the stored token before it returns.
C15_UnauthorizedClearsToken ==
    [][\A h \in Handlers : StatusRejected(h) => gcp_token' = NoToken]_vars

\* the monitor takes the step that follows its sleep, with no token stored
WakesWithoutToken ==
    /\ mon.pc = "due"
    /\ gcp_token = NoToken
    /\ th'[Monitor] # th[Monitor]

\* C16: with no token stored, the monitor's iteration goes straight back to
\* its sleep: no status call, no stop call, no policy, no warning, and the
\* session state, both warning flags, last_activity_time and the sessions
\* table are unchanged.
C16_NoTokenShortCircuit ==
    [][WakesWithoutToken
          => /\ th'[Monitor].pc = "sleep"
             /\ UNCHANGED <<globals, sessions, iter, fired>>]_vars

\* the monitor is back asleep after an iteration without a token, while a
\* request has left a session id behind
C16_Witness ==
    /\ mon.pc = "sleep"
    /\ ticks > 0
    /\ gcp_token = NoToken
    /\ current_session_id # None
    /\ iter = IterInit

\* C17: a poll that observes RUNNING while the session opened by an earlier
\* poll is still open calls start_session not at all and leaves
\* current_session_id and vm_start_time as it found them.
C17_RunningIsIdempotent ==
    (mon.pc = "policy" /\ PollFoundOpen)
        => /\ iter.begins = 0
           /\ ~iter.opened
           /\ current_session_id = iter.sid
           /\ vm_start_time = iter.start

\* a later poll found the session open and left it alone
C17_Witness ==
    /\ mon.pc = "policy"
    /\ PollFoundOpen
    /\ now > iter.start
    /\ iter.begins = 0
    /\ vm_start_time = iter.start
    /\ current_session_id = iter.sid

\* C18 as stated: the open and close transitions the polls have performed
\* never outnumber the changes between RUNNING and not RUNNING in the stream
\* of observed statuses.
C18_Original == obs.opens + obs.closes <= obs.changes

\* C18 amended: they never outnumber those changes plus the sessions that a
\* policy shutdown or api_stop has closed (each of which lets the next poll
\* that still observes RUNNING open a session again); and a poll closes a
\* session only on a change from RUNNING to not RUNNING.
C18_TogglesFollowStream ==
    /\ obs.opens + obs.closes <= obs.changes + obs.stops
    /\ 2 * obs.closes <= obs.changes

\* RUNNING, not RUNNING, RUNNING: opened, closed and opened again
C18_Witness ==
    /\ obs.changes = 3
    /\ obs.opens = 2
    /\ obs.closes = 1
    /\ obs.stops = 0

\* api_stop is about to answer: stop_vm has returned
StopAnswered(h) == th[h].pc = "respond" /\ th[h].op = "stop"
\* api_stop found a session open / no session open
StopFoundOpen(h) == th[h].foundId # None /\ th[h].foundStart # None
StopFoundClosed(h) == th[h].foundId = None /\ th[h].foundStart = None

\* C19: when api_stop answers with the gateway's success for a request that
\* found a session open, that session's row has been ended once, with the
\* session's runtime, vm_start_time and current_session_id are cleared, and
\* the monitor has not run in between.
C19_StopClosesSynchronously ==
    \A h \in Handlers :
       (StopAnswered(h) /\ th[h].result = "success" /\ StopFoundOpen(h))
           => /\ sessions[th[h].foundId].ended
              /\ sessions[th[h].foundId].ends = 1
              /\ sessions[th[h].foundId].runtime >= 0
              /\ IsClosed
              /\ AtRest(Monitor)

C19_Witness ==
    \E h \in Handlers :
       /\ StopAnswered(h)
       /\ th[h].result = "success"
       /\ StopFoundOpen(h)
       /\ sessions[th[h].foundId].ended
       /\ sessions[th[h].foundId].runtime > 0
       /\ IsClosed

\* a step of api_stop for a request that found no session open
StopStepWhenClosed(h) ==
    /\ th[h].op = "stop"
    /\ StopFoundClosed(h)
    /\ th'[h] # th[h]

\* C20: api_stop called with a token while no session is open calls
\* end_session not at all, leaves the session state closed, and goes on to
\* the gateway's stop call.
C20_StopWhenClosed ==
    [][\A h \in Handlers :
          StopStepWhenClosed(h)
             => /\ sessions' = sessions
                /\ vm_start_time' = None
                /\ current_session_id' = None
                /\ th[h].pc = "clr2" => th'[h].pc = "stopcall"]_vars

\* the stop call was made for a request that found no session open
C20_Witness ==
    \E h \in Handlers :
       /\ StopAnswered(h)
       /\ StopFoundClosed(h)
       /\ IsClosed

\* a step of api_start, the arrival of the request included
StartStep(h) ==
    /\ th[h].op = "start" \/ th'[h].op = "start"
    /\ th'[h] # th[h]
\* vm_start_time is set
SessionOpens == vm_start_time = None /\ vm_start_time' # None

\* C21: api_start goes past its guard only with a token; it then records
\* activity (a time read after the request arrived) and goes on to the
\* gateway's start call; no step of it changes vm_start_time,
\* current_session_id or the sessions table; and vm_start_time is set only by
\* the monitor, after a poll that answered RUNNING.
C21_StartOpensNothing ==
    [][/\ \A h \in Handlers :
            StartStep(h)
               => /\ gcp_token # NoToken
                  /\ UNCHANGED <<vm_start_time, current_session_id, sessions>>
                  /\ th[h].pc = "upd2"
                        => /\ th'[h].pc = "startcall"
                           /\ last_activity_time' = th[h].t
                           /\ th[h].t >= th[h].began
       /\ SessionOpens => mon.pc = "set" /\ mon.status = "RUNNING"]_vars

\* the start call is being made, activity is recorded, no session is open
C21_Witness ==
    \E h \in Handlers :
       /\ th[h].pc = "startcall"
       /\ th[h].op = "start"
       /\ th[h].began > 0
       /\ last_activity_time = th[h].began
       /\ IsClosed

\* C22: when api_stop answers with a failure of the gateway's stop operation
\* (an error or a timeout), vm_start_time and current_session_id are what the
\* request found.
C22_FailedStopLeavesSession ==
    \A h \in Handlers :
       (StopAnswered(h) /\ th[h].result \in {"error", "timeout"})
           => /\ vm_start_time = th[h].foundStart
              /\ current_session_id = th[h].foundId

\* update_activity() returns
UpdateReturns(t) == th[t].pc = "upd2" /\ th'[t].pc # "upd2"

\* C23: update_activity() reads the clock, stores what it read in
\* last_activity_time and clears shutdown_warning_sent, so that
\* get_time_until_inactivity_shutdown() at that instant is the full timeout,
\* whatever it was before; vm_start_time, current_session_id,
\* session_warning_sent and the sessions table are left alone.
C23_ActivityResetsInactivity ==
    [][\A t \in Threads :
          /\ (th[t].pc = "upd1" /\ th'[t].pc = "upd2") => th'[t].t = now
          /\ UpdateReturns(t)
                => /\ last_activity_time' = th[t].t
                   /\ ~shutdown_warning_sent'
                   /\ now' = th[t].t
                         => get_time_until_inactivity_shutdown'
                               = INACTIVITY_TIMEOUT_SECONDS
                   /\ UNCHANGED <<vm_start_time, current_session_id,
                                  session_warning_sent, sessions>>]_vars

\* update_activity() was called with nothing left of the timeout
C23_Witness ==
    /\ IterationDone
    /\ mon.reason = "inactivity"
    /\ iter.irem = 0
    /\ last_activity_time = now
    /\ ~shutdown_warning_sent
    /\ get_time_until_inactivity_shutdown = INACTIVITY_TIMEOUT_SECONDS

\* the session limit less the age of the session, not below 0
SessionLeft ==
    LET left == MAX_SESSION_SECONDS - (now - vm_start_time)
    IN IF left >= 0 THEN left ELSE 0

\* C24: get_time_until_session_end() is the full session limit while
\* vm_start_time is None, and otherwise the limit less the session's age, not
\* below 0; when the clock is not behind vm_start_time it lies between 0 and
\* the limit.
C24_SessionRemaining ==
    /\ vm_start_time = None => get_time_until_session_end = MAX_SESSION_SECONDS
    /\ vm_start_time # None => get_time_until_session_end = SessionLeft
    /\ (vm_start_time # None /\ now >= vm_start_time)
          => get_time_until_session_end \in 0..MAX_SESSION_SECONDS

\* a session older than the limit
C24_Witness ==
    /\ vm_start_time # None
    /\ now - vm_start_time > MAX_SESSION_SECONDS
    /\ get_time_until_session_end = 0

\* the inactivity timeout less the idle time, not below 0
IdleLeft ==
    LET left == INACTIVITY_TIMEOUT_SECONDS - (now - last_activity_time)
    IN IF left >= 0 THEN left ELSE 0

\* C25: get_time_until_inactivity_shutdown() is the inactivity timeout less
\* the time since last_activity_time, not below 0, with or without an open
\* session; when the clock is not behind last_activity_time it lies between 0
\* and the timeout.
C25_InactivityRemaining ==
    /\ get_time_until_inactivity_shutdown = IdleLeft
    /\ now >= last_activity_time
          => get_time_until_inactivity_shutdown \in 0..INACTIVITY_TIMEOUT_SECONDS

\* no session is open and the idle time is beyond the timeout
C25_Witness ==
    /\ vm_start_time = None
    /\ now - last_activity_time > INACTIVITY_TIMEOUT_SECONDS
    /\ get_time_until_inactivity_shutdown = 0

\* one session is open before and after the step
SessionStaysOpen ==
    /\ vm_start_time # None
    /\ vm_start_time' # None
    /\ current_session_id' = current_session_id
\* the clear_vm_start_time() of auto_shutdown_vm completes
ShutdownCloses ==
    /\ mon.pc = "clr2"
    /\ mon.reason \in Reasons
    /\ th'[Monitor].pc # "clr2"

\* C26: no step taken while one session stays open raises
\* get_time_until_session_end(), and right after the close made by a policy
\* shutdown it is the full session limit.
C26_SessionRemainingFalls ==
    [][/\ SessionStaysOpen
            => get_time_until_session_end' <= get_time_until_session_end
       /\ ShutdownCloses => get_time_until_session_end' = MAX_SESSION_SECONDS]_vars

\* a session that had aged was closed by a shutdown: the full limit is back
C26_Witness ==
    /\ ShutdownReturned
    /\ iter.elapsed # None
    /\ iter.elapsed > 0
    /\ last_activity_time > 0
    /\ get_time_until_session_end = MAX_SESSION_SECONDS

\* in the scenario, the first poll at which no more than the warning threshold
\* is left of the inactivity timeout that started at 0
FirstWarningPoll == INACTIVITY_TIMEOUT_SECONDS - INACTIVITY_WARNING_SECONDS
\* that poll's iteration has evaluated the inactivity policy
FirstWarningPollDone ==
    \/ now > FirstWarningPoll
    \/ now = FirstWarningPoll /\ mon.pc \in {"done", "sleep"}

\* C27: no more than one inactivity warning is printed between two calls of
\* update_activity() and no more than one session-limit warning between the
\* opening of a session and its close; and in the scenario of a 30 s cadence,
\* while nothing has been requested and the timeout has not fired, the one
\* inactivity warning is printed by the poll at 780 s, the first that finds
\* 120 s or less remaining.
C27_WarnOncePerEpoch ==
    /\ \A r \in Reasons : warnings[r] <= 1
    /\ (~served /\ fired["inactivity"].n = 0)
          => /\ warnings["inactivity"] = IF FirstWarningPollDone THEN 1 ELSE 0
             /\ "inactivity" \in iter.warned
                   => /\ now = FirstWarningPoll
                      /\ iter.irem = INACTIVITY_WARNING_SECONDS

\* a later poll of the same epoch, inside the warning zone, that did not warn
C27_Witness ==
    /\ ~served
    /\ fired["inactivity"].n = 0
    /\ IterationDone
    /\ now > FirstWarningPoll
    /\ iter.irem # None /\ iter.irem > 0
    /\ iter.warned = {}
    /\ warnings["inactivity"] = 1
    /\ vm_start_time # None

\* the iteration has just tested the session limit / the inactivity timeout
SessionPolicyTested ==
    \/ mon.pc = "inact"
    \/ mon.pc = "shut" /\ mon.reason = "session_limit"
InactivityPolicyTested ==
    \/ mon.pc = "done" /\ mon.reason = "none" /\ iter.irem # None
    \/ mon.pc = "shut" /\ mon.reason = "inactivity"

\* C28: once an iteration has tested a policy whose remaining time was at or
\* below its warning threshold (0 included), that policy's warning flag is
\* set: it was set before, or the iteration printed the warning and set it.
C28_WarnAtOrBelowThreshold ==
    /\ (SessionPolicyTested /\ get_time_until_session_end <= SESSION_WARNING_SECONDS)
          => session_warning_sent
    /\ (InactivityPolicyTested /\ iter.irem <= INACTIVITY_WARNING_SECONDS)
          => shutdown_warning_sent

\* a request for the status, a keep-alive, a start or a stop
UserActions == {"status", "keepalive", "start", "stop"}
\* the handler of such a request returns
UserActionReturns(h) ==
    /\ th[h].op \in UserActions
    /\ th[h].pc # "idle"
    /\ th'[h].pc = "idle"

\* C29: when the handler of a status query, a keep-alive, a start or a stop
\* request returns, last_activity_time is no earlier than the arrival of the
\* request.
C29_UserActionsRefresh ==
    [][\A h \in Handlers :
          UserActionReturns(h) => last_activity_time' >= th[h].began]_vars

\* C30: no step of any thread lowers last_activity_time.
C30_ActivityNeverGoesBack ==
    [][last_activity_time' >= last_activity_time]_vars

\* auto_shutdown_vm issues its stop call
ShutdownStopIssued == mon.pc = "shut" /\ th'[Monitor].pc = "stopcall"

\* C31: whenever auto_shutdown_vm issues its stop call, a token is stored and
\* a session is open (vm_start_time and current_session_id both set), whatever
\* the request handlers have done in the meantime.
C31_ShutdownOnlyWhileOpen ==
    [][ShutdownStopIssued
          => /\ gcp_token # NoToken
             /\ vm_start_time # None
             /\ current_session_id # None]_vars

\* set_vm_start_time() has stored the start time and not yet the session id
HalfOpen == vm_start_time # None /\ current_session_id = None
\* the handler is about to read the session state
ReadsSession(h) == th[h].pc \in {"clr1", "trk1"}

\* C32: a handler that reads the session state never finds vm_start_time set
\* with current_session_id still None, and between api_track's test of
\* current_session_id and its assignment nothing else assigns it.
C32_NoTornSession ==
    \A h \in Handlers :
       /\ ReadsSession(h) => ~HalfOpen
       /\ th[h].pc = "trk2" => current_session_id = None

\* C33: the monitor thread never ends: whatever fails or raises in an
\* iteration (the status call, the stop call of a policy shutdown, the closing
\* of the record), the loop goes on to its next sleep.
C33_MonitorNeverStops == mon.pc # "dead"

\* the poll that follows a policy shutdown whose stop call did not succeed
\* has observed RUNNING and opened a session
ReopenedAfterFailedStop ==
    /\ JustOpened
    /\ obs.shut.id # None
    /\ ~obs.shut.ok
    /\ ticks = obs.shut.tick + 1

\* C34: when the stop call of a policy shutdown has failed and the next poll
\* observes RUNNING, that poll starts a new row: current_session_id is the id
\* of a fresh, open row and not the one the shutdown closed, vm_start_time is
\* the time of that poll, and the closed row is as the shutdown left it.
C34_FailedStopReopensNewRecord ==
    ReopenedAfterFailedStop
        => /\ current_session_id # obs.shut.id
           /\ current_session_id = Len(sessions)
           /\ sessions[current_session_id] = NewSession
           /\ vm_start_time = now
           /\ obs.shut.row.ended
           /\ sessions[obs.shut.id] = obs.shut.row

C34_Witness ==
    /\ ReopenedAfterFailedStop
    /\ current_session_id = obs.shut.id + 1
    /\ sessions[obs.shut.id].ended
    /\ sessions[obs.shut.id].ends = 1
    /\ vm_start_time = now

\* start_vm / stop_vm is about to return
GatewayReturns(h) == th[h].pc = "respond" /\ th[h].op \in {"start", "stop"}

\* C35: start_vm and stop_vm return one of success and failure, and success
\* only when a poll of the provider's operation answered DONE without error;
\* an operation not DONE within the bound gives failure.
C35_SuccessOnlyWhenResolved ==
    \A h \in Handlers :
       GatewayReturns(h)
           => /\ th[h].result \in VmOpOutcomes
              /\ th[h].result = "success" => th[h].resolved

\* the iteration opened a session although, when its poll answered, the last
\* activity was at least the inactivity timeout in the past
OpenedWhileIdle ==
    /\ IterationDone
    /\ iter.opened
    /\ iter.act # None
    /\ now - iter.act >= INACTIVITY_TIMEOUT_SECONDS

\* C36: an iteration that opens a session when the last activity is at least
\* the inactivity timeout in the past goes on to the inactivity shutdown: it
\* issues one stop call, with reason inactivity, and ends the row it has just
\* started.
C36_OpeningIsNotActivity ==
    OpenedWhileIdle
        => /\ iter.begins = 1
           /\ iter.shuts = <<"inactivity">>
           /\ iter.stops = <<"inactivity">>
           /\ iter.atShut = Len(sessions)
           /\ sessions[iter.atShut].ended
           /\ IsClosed

C36_Witness ==
    /\ OpenedWhileIdle
    /\ iter.elapsed = 0
    /\ iter.irem = 0
    /\ iter.stops = <<"inactivity">>
    /\ sessions[iter.atShut].ended
    /\ sessions[iter.atShut].runtime = 0

\* C37: a poll that is answered while the stop call of an api_stop request
\* that has closed a session is in flight does not lead the monitor to open a
\* session and start a record.
C37_NoReopenDuringStop == (iter.midStop /\ iter.opened) => iter.begins = 0

\* api_set_token has accepted the token and is recording activity
TokenAccepted(h) == th[h].op = "token" /\ th[h].pc \in {"upd1", "upd2"}
\* a step of api_set_token after the validating status call
TokenStep(h) == th[h].pc = "validate" /\ th'[h] # th[h]

\* C38: api_set_token makes its validating call only for a non-empty token; a
\* token whose validating call was answered 401 is never accepted; a rejected
\* request changes neither gcp_token nor last_activity_time; an accepted one
\* stores the token and then records activity.
C38_TokenValidation ==
    [][\A h \in Handlers :
          /\ th'[h].pc = "validate" => th'[h].tok # ""
          /\ TokenAccepted(h)' => /\ th'[h].http # HTTP_UNAUTHORIZED
                                  /\ gcp_token' = th'[h].tok
          /\ TokenStep(h)
                => \/ th'[h].pc = "idle"
                      /\ UNCHANGED <<gcp_token, last_activity_time>>
                   \/ th'[h].pc = "upd1" /\ gcp_token' = th[h].tok
          /\ (TokenAccepted(h) /\ th[h].pc = "upd2" /\ th'[h].pc = "idle")
                => /\ last_activity_time' = th[h].t
                   /\ th[h].t >= th[h].began]_vars

\* a token was accepted although the validating call failed otherwise than
\* with 401 (the server answered 500)
C38_Witness ==
    \E h \in Handlers :
       /\ TokenAccepted(h)
       /\ th[h].http = HTTP_SERVER_ERROR
       /\ gcp_token = th[h].tok

====
